---- MODULE Spec2Model ----
(***************************************************************************)
(* Backend provisioning and supervision commands of the desktop shell      *)
(* (desktop-app/src-tauri/src/lib.rs).                                     *)
(*                                                                         *)
(* The state is the part of the filesystem the commands look at, the       *)
(* inherited PYTHONPATH, the command invocation in progress (its call      *)
(* stack, program position and everything it did to the outside world),    *)
(* and the pipes, reader threads and subscriber of the log relay.          *)
(*                                                                         *)
(* Paths are sequences of components (Path::join appends one), strings     *)
(* are sequences of text units (format! concatenates).  The model covers   *)
(* hosts on which dirs::data_local_dir() and std::env::current_exe()       *)
(* resolve.                                                                *)
(***************************************************************************)
EXTENDS Integers, Sequences, FiniteSets, TLC

VARIABLES
    fs,          \* the set of paths that exist on disk
    pythonpath,  \* the inherited PYTHONPATH of the host process
    calls,       \* per task: the command invocation in progress or finished
    reader,      \* per stream: state of the reader thread of the last worker
    pipe,        \* per stream: lines written by the worker and not yet read
    closed,      \* per stream: the worker's end of the pipe is closed
    written,     \* per stream: every line the worker has written (history)
    attempts,    \* per stream: every line read, with its forward outcome
    events       \* the "backend-log" events the subscriber has received

vars == <<fs, pythonpath, calls, reader, pipe, closed, written, attempts, events>>

relayVars == <<reader, pipe, closed, written, attempts, events>>

----------------------------------------------------------------------------
(* Bounds *)

MaxOut == 1      \* longest captured stdout / stderr of an external program
MaxLines == 2    \* most lines the worker writes to one stream
MaxPid == 2      \* process identifiers are drawn from 1..MaxPid

----------------------------------------------------------------------------
(* Paths *)

join(p, c) == Append(p, c)

parent(p) == SubSeq(p, 1, Len(p) - 1)

app_data == <<"AppData", "Local">>

install_path == join(app_data, "VisualPIIStripper")

startup_script == join(install_path, "start_backend.bat")

backend_dir == join(install_path, "backend")

python_runtime_dir == join(install_path, "python-runtime")

python_exe == join(python_runtime_dir, "python.exe")

app_py == join(backend_dir, "app.py")

requirements_path == join(backend_dir, "requirements.txt")

exe_dir == <<"Program Files", "desktop-app">>

resources_dir == join(exe_dir, "resources")

bundled_installer == join(resources_dir, "setup_installer.exe")

local_installer == join(exe_dir, "setup_installer.exe")

\* Path::exists
exists(p) == p \in fs

\* The paths the model tracks; app_data and exe_dir themselves always exist.
InstallTree == {install_path, startup_script, backend_dir, app_py,
                requirements_path, python_runtime_dir, python_exe}

InstallerTree == {resources_dir, bundled_installer, local_installer}

Roots == {app_data, exe_dir}

\* A filesystem holds a path only together with its parent directory.
Consistent(S) == \A p \in S : parent(p) \in S \cup Roots

\* fs::create_dir_all: the directory and every missing ancestor.
RECURSIVE ancestors(_)
ancestors(p) == IF p \in Roots \/ Len(p) = 0 THEN {} ELSE {p} \cup ancestors(parent(p))

----------------------------------------------------------------------------
(* Text *)

\* A unit that is not valid Unicode (an unpaired surrogate, a stray byte).
IllFormed == {"\\xFF"}

REPLACEMENT_CHARACTER == "U+FFFD"

\* String::from_utf8_lossy / OsStr::to_string_lossy on a sequence of units.
lossy(s) == [i \in 1..Len(s) |-> IF s[i] \in IllFormed THEN REPLACEMENT_CHARACTER ELSE s[i]]

\* The components of a path written out with separator sep between them.
RECURSIVE joined(_, _)
joined(p, sep) ==
    IF Len(p) = 0 THEN <<>>
    ELSE IF Len(p) = 1 THEN <<p[1]>>
    ELSE joined(parent(p), sep) \o <<sep>> \o <<p[Len(p)]>>

\* Path::to_str (of a path that is valid Unicode).
to_str(p) == joined(p, "\\")

\* Path::to_string_lossy.
to_string_lossy(p) == lossy(joined(p, "\\"))

\* {:?} of a path: quoted, backslashes escaped.
debug(p) == <<"\"">> \o joined(p, "\\\\") \o <<"\"">>

\* Sequences over S of length at most n.
SeqUpTo(S, n) == UNION {[1..k -> S] : k \in 0..n}

\* What a child process can leave on a captured stream.
Outputs == SeqUpTo({"text", "\\xFF"}, MaxOut)

\* The io::Error text of a failed OS call.
OsError == <<"os error">>

----------------------------------------------------------------------------
(* Results and messages *)

Ok(text) == [ok |-> TRUE, val |-> FALSE, text |-> text]

OkBool(b) == [ok |-> TRUE, val |-> b, text |-> <<>>]

Err(text) == [ok |-> FALSE, val |-> FALSE, text |-> text]

NoResult == [ok |-> FALSE, val |-> FALSE, text |-> <<"(none)">>]

MsgFound == "Backend installation found. If you're having issues, please run the setup_installer.exe manually."

MsgInstallerNotFound == "setup_installer.exe not found in bundled resources or exe directory"

MsgRunFailed == "Failed to run installer: "

MsgInstallOk == "Installation completed successfully!\n"

MsgInstallFailed == "Installation failed:\n"

MsgPythonNotFound == "Python not found on system. Please either: ..."

MsgMkdirFailed == "Failed to create backend directory: "

MsgWriteFailed == "Failed to write requirements.txt: "

MsgPipRunFailed == "Failed to run pip install: "

MsgPipFailed == "Failed to install Python packages:\n"

MsgDirectOk == "Basic backend installation completed using system Python. Some features may require manual setup."

MsgNotInstalled == "Backend not installed or startup script not found"

MsgSpawnFailed == "Failed to start backend: "

MsgScriptStarted == "Backend started successfully using start_backend.bat"

MsgRuntimeMissing == "Python runtime not found in installation"

MsgEntryMissing == "Backend app.py not found in installation"

MsgLogsStarted == "Backend started with log streaming (PID: "

MsgRuntimeMissingAt == "Python runtime not found at: "

MsgEntryMissingAt == "Backend not installed or app.py not found at: "

MsgDirectSpawnFailed == "Failed to start backend directly: "

MsgDirectStarted == "Backend started using installed Python runtime (PID: "

MsgReady == "Backend is installed and ready. Frontend will start the server."

MsgAutoStarted == "Installation completed! Backend is now running."

MsgAutoStartFailed == "Installation completed but failed to start backend: "

MsgAutoInstallFailed == "Auto-installation failed: "

MsgAutoCheckFailed == "Failed to check backend status: "

----------------------------------------------------------------------------
(* The inherited environment *)

\* std::env::var: Err when the variable is unset or is not valid Unicode.
env_var(v) ==
    IF ~v.present THEN [ok |-> FALSE, value |-> <<>>]
    ELSE IF \E i \in 1..Len(v.value) : v.value[i] \in IllFormed
         THEN [ok |-> FALSE, value |-> <<>>]
         ELSE [ok |-> TRUE, value |-> v.value]

\* Result::unwrap_or_default on a Result<String, _>.
unwrap_or_default(r) == IF r.ok THEN r.value ELSE <<>>

\* format!("{};{}", a, b)
format_pythonpath(a, b) == a \o <<";">> \o b

PythonPaths ==
    { [present |-> FALSE, value |-> <<>>],
      [present |-> TRUE, value |-> <<"C:\\libs">>],
      [present |-> TRUE, value |-> <<"C:\\libs", ";", "D:\\more">>],
      [present |-> TRUE, value |-> <<"C:\\libs", "\\xFF">>] }

----------------------------------------------------------------------------
(* Command invocations *)

Tasks == {"t1", "t2"}

Streams == {"stdout", "stderr"}

Commands == {"check_backend_installed", "install_backend", "install_backend_direct",
             "start_backend", "start_backend_with_logs", "start_backend_direct",
             "check_backend_running", "auto_setup_on_first_run"}

Frame(fn, pc) == [fn |-> fn, pc |-> pc]

\* Before any child has been waited for, before any response has come.
NoOutput == [code |-> -1, stdout |-> <<>>, stderr |-> <<>>]

NoResponse == [kind |-> "none", status |-> 0]

\* A task that has not been given a command yet.
\*   stack          the functions running, innermost first, each with its position
\*   installer_exe  install_backend's choice of artifact
\*   output         what Command::output returned for the installer or for pip
\*   response       what the GET of check_backend_running came to
\*   ret            the result of the function last awaited
\*   result         the result handed to the shell
\*   ext            every action on the outside world, in order
\*   trace          every function entered, in order
\*   fs0            the filesystem when the command was invoked
\*   started_once   an earlier auto_setup_on_first_run ended with the backend started
Idle ==
    [op |-> "none", stack |-> <<>>, installer_exe |-> <<>>, ret |-> NoResult,
     output |-> NoOutput, response |-> NoResponse,
     result |-> NoResult, ext |-> <<>>, trace |-> <<>>, fs0 |-> {},
     started_once |-> FALSE]

\* One action on the outside world: a child process or a network request.
\*   kind     "installer", "probe" (python --version), "pip", "shell", "worker", "http"
\*   started  the OS call that starts it succeeded
External(kind, program, args, cwd, env, piped, started, pid) ==
    [kind |-> kind, program |-> program, args |-> args, cwd |-> cwd, env |-> env,
     piped |-> piped, started |-> started, pid |-> pid]

Top(c) == c.stack[1]

At(t, fn, pc) ==
    /\ Len(calls[t].stack) > 0
    /\ Top(calls[t]) = Frame(fn, pc)

\* The running function moves to another position.
Goto(c, pc) == [c EXCEPT !.stack[1].pc = pc]

\* The running function awaits fn and continues at retpc with its result in ret.
Call(c, fn, retpc) ==
    [c EXCEPT !.stack = <<Frame(fn, "entry")>> \o <<Frame(Top(c).fn, retpc)>> \o Tail(c.stack),
              !.trace = Append(c.trace, fn)]

\* The running function returns r: to the function awaiting it, or to the shell.
Return(c, r) ==
    IF Len(c.stack) = 1
    THEN [c EXCEPT !.stack = <<>>, !.result = r]
    ELSE [c EXCEPT !.stack = Tail(c.stack), !.ret = r]

Did(c, e) == [c EXCEPT !.ext = Append(c.ext, e)]

Done(t) == calls[t].op # "none" /\ calls[t].stack = <<>>

\* Some auto_setup_on_first_run has ended with the backend started.
StartedBefore ==
    \E u \in Tasks :
        \/ calls[u].started_once
        \/ /\ Done(u)
           /\ calls[u].op = "auto_setup_on_first_run"
           /\ calls[u].result = Ok(<<MsgAutoStarted>>)

\* The shell invokes a command on a task that is running none.
Invoke(t, op) ==
    /\ calls[t].stack = <<>>
    /\ calls' = [calls EXCEPT ![t] =
                   [Idle EXCEPT !.op = op, !.stack = <<Frame(op, "entry")>>,
                                !.trace = <<op>>, !.fs0 = fs,
                                !.started_once = StartedBefore]]
    /\ UNCHANGED <<fs, pythonpath, relayVars>>

----------------------------------------------------------------------------
(* check_backend_installed *)

check_backend_installed(t) ==
    /\ At(t, "check_backend_installed", "entry")
    /\ calls' = [calls EXCEPT ![t] = Return(@, OkBool(exists(startup_script)))]
    /\ UNCHANGED <<fs, pythonpath, relayVars>>

----------------------------------------------------------------------------
(* install_backend *)

\* ExitStatus::success
success(code) == code = 0

ExitCodes == {0, 1}

\* What the installer puts under the install root when it completes.
Installed == {install_path, startup_script, backend_dir, app_py,
              python_runtime_dir, python_exe}

\* setup_installer.exe, run to its exit on filesystem f: its exit code, what it
\* wrote to its two streams, and the filesystem it leaves.  Exit code 0 means the
\* installation is complete, marker included; a failing run leaves any part of it
\* but never the marker.
setup_installer(f) ==
    { [code |-> 0, stdout |-> out, stderr |-> err, fs |-> f \cup Installed]
        : out \in Outputs, err \in Outputs }
    \cup
    { [code |-> 1, stdout |-> x[1], stderr |-> x[2], fs |-> f \cup x[3]]
        : x \in { y \in Outputs \X Outputs \X SUBSET (Installed \ {startup_script})
                    : Consistent(y[3]) } }

\* The check with its sense inverted.
already_installed_inverted == ~exists(install_path)

\* The check guarded as well by a lock held while a call is past it.
already_installed_or_locked ==
    \/ exists(install_path)
    \/ \E u \in Tasks :
          /\ Len(calls[u].stack) > 0
          /\ Top(calls[u]).fn = "install_backend"
          /\ Top(calls[u]).pc # "entry"

\* The check made on the marker, as check_backend_installed makes it.
already_installed_by_marker == exists(startup_script)

\* "Check if already installed"
already_installed == exists(install_path)

install_backend_check(t) ==
    /\ At(t, "install_backend", "entry")
    /\ calls' = [calls EXCEPT ![t] =
                   IF already_installed
                   THEN Return(@, Ok(<<MsgFound>>))
                   ELSE Goto(@, "locate")]
    /\ UNCHANGED <<fs, pythonpath, relayVars>>

\* The two locations probed in the other order.
installer_exe_local_first ==
    IF exists(local_installer) THEN local_installer
    ELSE IF exists(bundled_installer) THEN bundled_installer
    ELSE <<>>

\* "Use whichever one exists": the path chosen, <<>> when there is none.
installer_exe ==
    IF exists(bundled_installer) THEN bundled_installer
    ELSE IF exists(local_installer) THEN local_installer
    ELSE <<>>

install_backend_locate(t) ==
    /\ At(t, "install_backend", "locate")
    /\ calls' = [calls EXCEPT ![t] =
                   IF installer_exe = <<>>
                   THEN Return(@, Err(<<MsgInstallerNotFound>>))
                   ELSE Goto([@ EXCEPT !.installer_exe = installer_exe], "run")]
    /\ UNCHANGED <<fs, pythonpath, relayVars>>

\* A failed start of the installer tried again.
install_backend_run_retries(t) ==
    /\ At(t, "install_backend", "run")
    /\ \E started \in BOOLEAN :
         LET e == External("installer", calls[t].installer_exe, <<>>, <<>>, {},
                           TRUE, started, 0)
         IN calls' = [calls EXCEPT ![t] =
                        IF started
                        THEN Goto(Did(@, e), "wait")
                        ELSE IF Len(@.ext) < 2
                             THEN Did(@, e)
                             ELSE Return(Did(@, e), Err(<<MsgRunFailed>> \o OsError))]
    /\ UNCHANGED <<fs, pythonpath, relayVars>>

\* Command::output, first half: the child is started, or starting it fails.
install_backend_run(t) ==
    /\ At(t, "install_backend", "run")
    /\ \E started \in BOOLEAN :
         LET e == External("installer", calls[t].installer_exe, <<>>, <<>>, {},
                           TRUE, started, 0)
         IN calls' = [calls EXCEPT ![t] =
                        IF started
                        THEN Goto(Did(@, e), "wait")
                        ELSE Return(Did(@, e), Err(<<MsgRunFailed>> \o OsError))]
    /\ UNCHANGED <<fs, pythonpath, relayVars>>

\* The summary built from the wrong stream.
install_result_stderr(o) ==
    IF success(o.code)
    THEN Ok(<<MsgInstallOk>> \o lossy(o.stderr))
    ELSE Err(<<MsgInstallFailed>> \o lossy(o.stderr))

\* The result install_backend makes of the installer's exit.
install_result(o) ==
    IF success(o.code)
    THEN Ok(<<MsgInstallOk>> \o lossy(o.stdout))
    ELSE Err(<<MsgInstallFailed>> \o lossy(o.stderr))

\* Command::output, second half: the installer has run to its exit.
install_backend_wait(t) ==
    /\ At(t, "install_backend", "wait")
    /\ \E o \in setup_installer(fs) :
         /\ fs' = o.fs
         /\ calls' = [calls EXCEPT ![t] =
                        Return([@ EXCEPT !.output = [code |-> o.code, stdout |-> o.stdout,
                                                     stderr |-> o.stderr]],
                               install_result(o))]
    /\ UNCHANGED <<pythonpath, relayVars>>

----------------------------------------------------------------------------
(* install_backend_direct *)

\* The outcome of the probe not looked at.
install_backend_direct_probe_ignored(t) ==
    /\ At(t, "install_backend_direct", "entry")
    /\ \E started \in BOOLEAN :
         LET e == External("probe", <<"python">>, <<<<"--version">>>>, <<>>, {},
                           FALSE, started, 0)
         IN calls' = [calls EXCEPT ![t] = Goto(Did(@, e), "write")]
    /\ UNCHANGED <<fs, pythonpath, relayVars>>

install_backend_direct_probe(t) ==
    /\ At(t, "install_backend_direct", "entry")
    /\ \E started \in BOOLEAN :
         LET e == External("probe", <<"python">>, <<<<"--version">>>>, <<>>, {},
                           FALSE, started, 0)
         IN calls' = [calls EXCEPT ![t] =
                        IF started
                        THEN Goto(Did(@, e), "write")
                        ELSE Return(Did(@, e), Err(<<MsgPythonNotFound>>))]
    /\ UNCHANGED <<fs, pythonpath, relayVars>>

\* fs::create_dir_all(&backend_dir), then fs::write(&requirements_path, ..).
\* A failing create_dir_all may have made some of the ancestors already.
install_backend_direct_write(t) ==
    /\ At(t, "install_backend_direct", "write")
    /\ \/ \E made \in SUBSET ancestors(parent(backend_dir)) :
            /\ Consistent(fs \cup made)
            /\ fs' = fs \cup made
            /\ calls' = [calls EXCEPT ![t] = Return(@, Err(<<MsgMkdirFailed>> \o OsError))]
       \/ /\ fs' = fs \cup ancestors(backend_dir)
          /\ calls' = [calls EXCEPT ![t] = Return(@, Err(<<MsgWriteFailed>> \o OsError))]
       \/ /\ fs' = fs \cup ancestors(backend_dir) \cup {requirements_path}
          /\ calls' = [calls EXCEPT ![t] = Goto(@, "pip")]
    /\ UNCHANGED <<pythonpath, relayVars>>

pip_result(started, code, stderr) ==
    IF ~started THEN Err(<<MsgPipRunFailed>> \o OsError)
    ELSE IF ~success(code) THEN Err(<<MsgPipFailed>> \o lossy(stderr))
    ELSE Ok(<<MsgDirectOk>>)

install_backend_direct_pip(t) ==
    /\ At(t, "install_backend_direct", "pip")
    /\ \E started \in BOOLEAN, code \in ExitCodes, stdout \in Outputs, stderr \in Outputs :
         LET e == External("pip", <<"python">>,
                           <<<<"-m">>, <<"pip">>, <<"install">>, <<"-r">>,
                             to_str(requirements_path), <<"--user">>>>,
                           <<>>, {}, TRUE, started, 0)
             o == IF started THEN [code |-> code, stdout |-> stdout, stderr |-> stderr]
                  ELSE NoOutput
         IN calls' = [calls EXCEPT ![t] =
                        Return(Did([@ EXCEPT !.output = o], e),
                               pip_result(started, code, stderr))]
    /\ UNCHANGED <<fs, pythonpath, relayVars>>

----------------------------------------------------------------------------
(* start_backend *)

\* The install directory tested in place of the startup script.
start_backend_dir_check(t) ==
    /\ At(t, "start_backend", "entry")
    /\ IF ~exists(install_path)
       THEN calls' = [calls EXCEPT ![t] = Return(@, Err(<<MsgNotInstalled>>))]
       ELSE \E started \in BOOLEAN, pid \in 1..MaxPid :
              LET e == External("shell", <<"cmd">>, <<<<"/C">>, to_str(startup_script)>>,
                                <<>>, {}, FALSE, started, IF started THEN pid ELSE 0)
              IN calls' = [calls EXCEPT ![t] =
                             IF started
                             THEN Return(Did(@, e), Ok(<<MsgScriptStarted>>))
                             ELSE Return(Did(@, e), Err(<<MsgSpawnFailed>> \o OsError))]
    /\ UNCHANGED <<fs, pythonpath, relayVars>>

start_backend(t) ==
    /\ At(t, "start_backend", "entry")
    /\ IF ~exists(startup_script)
       THEN calls' = [calls EXCEPT ![t] = Return(@, Err(<<MsgNotInstalled>>))]
       ELSE \E started \in BOOLEAN, pid \in 1..MaxPid :
              LET e == External("shell", <<"cmd">>, <<<<"/C">>, to_str(startup_script)>>,
                                <<>>, {}, FALSE, started, IF started THEN pid ELSE 0)
              IN calls' = [calls EXCEPT ![t] =
                             IF started
                             THEN Return(Did(@, e), Ok(<<MsgScriptStarted>>))
                             ELSE Return(Did(@, e), Err(<<MsgSpawnFailed>> \o OsError))]
    /\ UNCHANGED <<fs, pythonpath, relayVars>>

----------------------------------------------------------------------------
(* start_backend_with_logs *)

\* The environment overlay of the streaming variant.
logs_env ==
    { <<"VISUAL_PII_INSTALL_DIR", install_path>>,
      <<"PYTHONPATH", format_pythonpath(to_string_lossy(backend_dir),
                                        unwrap_or_default(env_var(pythonpath)))>> }

\* The two checks in the other order.
logs_precheck_entry_first ==
    IF ~exists(app_py) THEN Err(<<MsgEntryMissing>>)
    ELSE IF ~exists(python_exe) THEN Err(<<MsgRuntimeMissing>>)
    ELSE NoResult

\* The precondition checks of the streaming variant: the error, or none.
logs_precheck ==
    IF ~exists(python_exe) THEN Err(<<MsgRuntimeMissing>>)
    ELSE IF ~exists(app_py) THEN Err(<<MsgEntryMissing>>)
    ELSE NoResult

\* The relay of a worker just spawned: both readers running, nothing written.
relay_attached ==
    /\ reader' = [s \in Streams |-> "running"]
    /\ pipe' = [s \in Streams |-> <<>>]
    /\ closed' = [s \in Streams |-> FALSE]
    /\ written' = [s \in Streams |-> <<>>]
    /\ attempts' = [s \in Streams |-> <<>>]
    /\ events' = <<>>

start_backend_with_logs(t) ==
    /\ At(t, "start_backend_with_logs", "entry")
    /\ IF logs_precheck # NoResult
       THEN /\ calls' = [calls EXCEPT ![t] = Return(@, logs_precheck)]
            /\ UNCHANGED relayVars
       ELSE \E started \in BOOLEAN, pid \in 1..MaxPid :
              LET e == External("worker", python_exe, <<app_py>>, backend_dir, logs_env,
                                TRUE, started, IF started THEN pid ELSE 0)
              IN IF started
                 THEN /\ calls' = [calls EXCEPT ![t] =
                            Return(Did(@, e), Ok(<<MsgLogsStarted, ToString(pid), ")">>))]
                      /\ relay_attached
                 ELSE /\ calls' = [calls EXCEPT ![t] =
                            Return(Did(@, e), Err(<<MsgSpawnFailed>> \o OsError))]
                      /\ UNCHANGED relayVars
    /\ UNCHANGED <<fs, pythonpath>>

----------------------------------------------------------------------------
(* start_backend_direct *)

direct_pythonpath ==
    format_pythonpath(to_string_lossy(backend_dir), unwrap_or_default(env_var(pythonpath)))

direct_env ==
    { <<"VISUAL_PII_INSTALL_DIR", install_path>>, <<"PYTHONPATH", direct_pythonpath>> }

\* The two checks in the other order.
direct_precheck_entry_first ==
    IF ~exists(app_py) THEN Err(<<MsgEntryMissingAt>> \o debug(app_py))
    ELSE IF ~exists(python_exe) THEN Err(<<MsgRuntimeMissingAt>> \o debug(python_exe))
    ELSE NoResult

direct_precheck ==
    IF ~exists(python_exe) THEN Err(<<MsgRuntimeMissingAt>> \o debug(python_exe))
    ELSE IF ~exists(app_py) THEN Err(<<MsgEntryMissingAt>> \o debug(app_py))
    ELSE NoResult

start_backend_direct(t) ==
    /\ At(t, "start_backend_direct", "entry")
    /\ IF direct_precheck # NoResult
       THEN calls' = [calls EXCEPT ![t] = Return(@, direct_precheck)]
       ELSE \E started \in BOOLEAN, pid \in 1..MaxPid :
              LET e == External("worker", python_exe, <<app_py>>, backend_dir, direct_env,
                                TRUE, started, IF started THEN pid ELSE 0)
              IN calls' = [calls EXCEPT ![t] =
                             IF started
                             THEN Return(Did(@, e), Ok(<<MsgDirectStarted, ToString(pid), ")">>))
                             ELSE Return(Did(@, e), Err(<<MsgDirectSpawnFailed>> \o OsError))]
    /\ UNCHANGED <<fs, pythonpath, relayVars>>

----------------------------------------------------------------------------
(* check_backend_running *)

\* Everything short of an error status taken for success.
is_success_below_400(status) == status \in 200..399

\* StatusCode::is_success
is_success(status) == status \in 200..299

\* What one GET can come to: a response with a status, or a transport error.
HttpOutcomes ==
    { [kind |-> "response", status |-> s] : s \in {199, 200, 204, 299, 300, 404, 500} }
    \cup { [kind |-> k, status |-> 0] : k \in {"connect", "timeout"} }

\* The match on send().await.
running_result(o) ==
    IF o.kind = "response" THEN OkBool(is_success(o.status)) ELSE OkBool(FALSE)

check_backend_running(t) ==
    /\ At(t, "check_backend_running", "entry")
    /\ \E o \in HttpOutcomes :
         LET e == External("http", <<"GET">>, <<<<"http://localhost:8000/">>>>, <<>>, {},
                           FALSE, TRUE, 0)
         IN calls' = [calls EXCEPT ![t] =
                        Return(Did([@ EXCEPT !.response = o], e), running_result(o))]
    /\ UNCHANGED <<fs, pythonpath, relayVars>>

----------------------------------------------------------------------------
(* auto_setup_on_first_run *)

auto_setup_entry(t) ==
    /\ At(t, "auto_setup_on_first_run", "entry")
    /\ calls' = [calls EXCEPT ![t] = Call(@, "check_backend_installed", "checked")]
    /\ UNCHANGED <<fs, pythonpath, relayVars>>

\* The installed path starting the backend as well.
auto_after_check_starts(c) ==
    IF ~c.ret.ok THEN Return(c, Err(<<MsgAutoCheckFailed>> \o c.ret.text))
    ELSE IF c.ret.val THEN Call(c, "start_backend", "started")
    ELSE Call(c, "install_backend", "installed")

\* The match on check_backend_installed().await.
auto_after_check(c) ==
    IF ~c.ret.ok THEN Return(c, Err(<<MsgAutoCheckFailed>> \o c.ret.text))
    ELSE IF c.ret.val THEN Return(c, Ok(<<MsgReady>>))
    ELSE Call(c, "install_backend", "installed")

auto_setup_checked(t) ==
    /\ At(t, "auto_setup_on_first_run", "checked")
    /\ calls' = [calls EXCEPT ![t] = auto_after_check(@)]
    /\ UNCHANGED <<fs, pythonpath, relayVars>>

\* The start attempted whatever install_backend returned.
auto_setup_installed_starts_anyway(t) ==
    /\ At(t, "auto_setup_on_first_run", "installed")
    /\ calls' = [calls EXCEPT ![t] = Call(@, "start_backend", "started")]
    /\ UNCHANGED <<fs, pythonpath, relayVars>>

auto_setup_installed(t) ==
    /\ At(t, "auto_setup_on_first_run", "installed")
    /\ calls' = [calls EXCEPT ![t] =
                   IF @.ret.ok THEN Call(@, "start_backend", "started")
                   ELSE Return(@, Err(<<MsgAutoInstallFailed>> \o @.ret.text))]
    /\ UNCHANGED <<fs, pythonpath, relayVars>>

auto_setup_started(t) ==
    /\ At(t, "auto_setup_on_first_run", "started")
    /\ calls' = [calls EXCEPT ![t] =
                   IF @.ret.ok THEN Return(@, Ok(<<MsgAutoStarted>>))
                   ELSE Return(@, Err(<<MsgAutoStartFailed>> \o @.ret.text))]
    /\ UNCHANGED <<fs, pythonpath, relayVars>>

----------------------------------------------------------------------------
(* The worker's output and the two reader threads *)

\* The k-th line the worker writes to a stream: text, or bytes that do not decode.
Line(k, valid) == IF valid THEN "line " \o ToString(k) ELSE "\\xFF"

\* The second reader block left with the first one's prefix.
tag_always_stdout(s) == "[STDOUT] "

tag(s) == IF s = "stdout" THEN "[STDOUT] " ELSE "[STDERR] "

\* format!("[STDOUT] {}", line)
log_message(s, line) == <<tag(s), line>>

\* The worker writes one more line to stream s.
WorkerWrite(s) ==
    /\ reader[s] # "none"
    /\ ~closed[s]
    /\ Len(written[s]) < MaxLines
    /\ \E valid \in BOOLEAN :
         LET line == Line(Len(written[s]) + 1, valid)
         IN /\ written' = [written EXCEPT ![s] = Append(@, line)]
            /\ pipe' = [pipe EXCEPT ![s] = Append(@, line)]
    /\ UNCHANGED <<fs, pythonpath, calls, reader, closed, attempts, events>>

\* The worker closes stream s, or exits.
WorkerClose(s) ==
    /\ reader[s] # "none"
    /\ ~closed[s]
    /\ closed' = [closed EXCEPT ![s] = TRUE]
    /\ UNCHANGED <<fs, pythonpath, calls, reader, pipe, written, attempts, events>>

\* The line the reader of stream s takes next.
next_line(s) == Head(pipe[s])

\* The loop left at the first emit that fails.
ReaderLine_stops_on_failure(s) ==
    /\ reader[s] = "running"
    /\ pipe[s] # <<>>
    /\ pipe' = [pipe EXCEPT ![s] = Tail(@)]
    /\ LET line == Head(pipe[s])
       IN IF line \in IllFormed
          THEN /\ attempts' = [attempts EXCEPT ![s] =
                     Append(@, [line |-> line, decoded |-> FALSE, delivered |-> FALSE])]
               /\ UNCHANGED <<events, reader>>
          ELSE \E delivered \in BOOLEAN :
                 /\ attempts' = [attempts EXCEPT ![s] =
                       Append(@, [line |-> line, decoded |-> TRUE, delivered |-> delivered])]
                 /\ events' = IF delivered THEN Append(events, log_message(s, line))
                              ELSE events
                 /\ reader' = IF delivered THEN reader ELSE [reader EXCEPT ![s] = "stopped"]
    /\ UNCHANGED <<fs, pythonpath, calls, closed, written>>

\* One turn of `for line in reader.lines()`: a line that decodes is formatted and
\* emitted, and the emit may fail; a line that does not decode is skipped.
ReaderLine(s) ==
    /\ reader[s] = "running"
    /\ pipe[s] # <<>>
    /\ pipe' = [pipe EXCEPT ![s] = Tail(@)]
    /\ LET line == next_line(s)
       IN IF line \in IllFormed
          THEN /\ attempts' = [attempts EXCEPT ![s] =
                     Append(@, [line |-> line, decoded |-> FALSE, delivered |-> FALSE])]
               /\ UNCHANGED events
          ELSE \E delivered \in BOOLEAN :
                 /\ attempts' = [attempts EXCEPT ![s] =
                       Append(@, [line |-> line, decoded |-> TRUE, delivered |-> delivered])]
                 /\ events' = IF delivered THEN Append(events, log_message(s, line))
                              ELSE events
    /\ UNCHANGED <<fs, pythonpath, calls, reader, closed, written>>

\* An empty pipe taken for the end of input.
ReaderEnd_on_empty(s) ==
    /\ reader[s] = "running"
    /\ pipe[s] = <<>>
    /\ reader' = [reader EXCEPT ![s] = "stopped"]
    /\ UNCHANGED <<fs, pythonpath, calls, pipe, closed, written, attempts, events>>

\* End of input: the loop ends and the thread with it.
ReaderEnd(s) ==
    /\ reader[s] = "running"
    /\ pipe[s] = <<>>
    /\ closed[s]
    /\ reader' = [reader EXCEPT ![s] = "stopped"]
    /\ UNCHANGED <<fs, pythonpath, calls, pipe, closed, written, attempts, events>>

----------------------------------------------------------------------------
(* Specifications *)

Filesystems == { S \in SUBSET (InstallTree \cup InstallerTree) : Consistent(S) }

NoRelay ==
    /\ reader = [s \in Streams |-> "none"]
    /\ pipe = [s \in Streams |-> <<>>]
    /\ closed = [s \in Streams |-> FALSE]
    /\ written = [s \in Streams |-> <<>>]
    /\ attempts = [s \in Streams |-> <<>>]
    /\ events = <<>>

Init ==
    /\ fs \in Filesystems
    /\ pythonpath \in PythonPaths
    /\ calls = [t \in Tasks |-> Idle]
    /\ NoRelay

\* One step of the command a task is running.
Step(t) ==
    \/ check_backend_installed(t)
    \/ install_backend_check(t)
    \/ install_backend_locate(t)
    \/ install_backend_run(t)
    \/ install_backend_wait(t)
    \/ install_backend_direct_probe(t)
    \/ install_backend_direct_write(t)
    \/ install_backend_direct_pip(t)
    \/ start_backend(t)
    \/ start_backend_with_logs(t)
    \/ start_backend_direct(t)
    \/ check_backend_running(t)
    \/ auto_setup_entry(t)
    \/ auto_setup_checked(t)
    \/ auto_setup_installed(t)
    \/ auto_setup_started(t)

\* The shell issues one command at a time and awaits it.
Next ==
    \/ \E op \in Commands : Invoke("t1", op)
    \/ Step("t1")

Spec == Init /\ [][Next]_vars

\* One streaming start on an installed backend, then the worker and the two
\* reader threads in any interleaving.
InitRelay ==
    /\ fs \in {Installed, Installed \ {python_exe}, Installed \ {app_py}}
    /\ pythonpath = [present |-> FALSE, value |-> <<>>]
    /\ calls = [t \in Tasks |-> Idle]
    /\ NoRelay

NextRelay ==
    \/ /\ \A s \in Streams : reader[s] = "none"
       /\ Invoke("t1", "start_backend_with_logs")
    \/ start_backend_with_logs("t1")
    \/ \E s \in Streams : WorkerWrite(s)
    \/ \E s \in Streams : WorkerClose(s)
    \/ \E s \in Streams : ReaderLine(s)
    \/ \E s \in Streams : ReaderEnd(s)

SpecRelay == InitRelay /\ [][NextRelay]_vars

\* The reader threads are OS threads: one that can take its next turn gets it.
RelayFairness ==
    \A s \in Streams : WF_vars(ReaderLine(s)) /\ WF_vars(ReaderEnd(s))

SpecRelayFair == SpecRelay /\ RelayFairness

\* Two install_backend commands dispatched concurrently: the async runtime runs
\* each as its own task and nothing orders their steps.
InitInstalls ==
    /\ fs \in Filesystems
    /\ pythonpath = [present |-> FALSE, value |-> <<>>]
    /\ calls = [t \in Tasks |-> Idle]
    /\ NoRelay

NextInstalls ==
    \E t \in Tasks :
        \/ Invoke(t, "install_backend")
        \/ install_backend_check(t)
        \/ install_backend_locate(t)
        \/ install_backend_run(t)
        \/ install_backend_wait(t)

SpecInstalls == InitInstalls /\ [][NextInstalls]_vars

----------------------------------------------------------------------------
(* Properties *)

\* A command the shell invoked as op has returned on task t.
Returned(t, op) == Done(t) /\ calls[t].op = op

Fresh(f) == f \cap InstallTree = {}

\* The children and requests of one kind among what a call did.
OfKind(c, kind) == SelectSeq(c.ext, LAMBDA e : e.kind = kind)

\* C1: install() takes the "found existing installation" short-circuit exactly
\* when the marker file start_backend.bat exists; with the install directory
\* present and the marker absent it goes on to locate the installer.
C1_ShortCircuitIffMarker ==
    \A t \in Tasks :
        Returned(t, "install_backend") =>
            ((calls[t].result = Ok(<<MsgFound>>)) <=> (startup_script \in calls[t].fs0))

\* C2: with the marker present, install() returns success, runs no installer and
\* leaves the filesystem as it found it, however often it is called.
C2_InstallIdempotent ==
    \A t \in Tasks :
        (Returned(t, "install_backend") /\ startup_script \in calls[t].fs0) =>
            /\ calls[t].result.ok
            /\ calls[t].ext = <<>>
            /\ fs = calls[t].fs0

C2_Witness ==
    /\ Returned("t1", "install_backend")
    /\ startup_script \in calls["t1"].fs0
    /\ bundled_installer \in calls["t1"].fs0
    /\ calls["t1"].result = Ok(<<MsgFound>>)

\* C3: an install() that gets to the locate step runs the bundled installer when
\* it exists, whether or not the co-located one does; runs the co-located one only
\* when the bundled one is absent; and never runs more than one artifact.
C3_ResolutionOrder ==
    \A t \in Tasks :
        (Returned(t, "install_backend") /\ calls[t].result # Ok(<<MsgFound>>)) =>
            LET c == calls[t]
                runs == OfKind(c, "installer")
            IN /\ c.ext = runs
               /\ Len(runs) <= 1
               /\ bundled_installer \in c.fs0 =>
                    Len(runs) = 1 /\ runs[1].program = bundled_installer
               /\ (bundled_installer \notin c.fs0 /\ local_installer \in c.fs0) =>
                    Len(runs) = 1 /\ runs[1].program = local_installer
               /\ \A i \in 1..Len(runs) :
                    runs[i].program = local_installer => bundled_installer \notin c.fs0

C3_Witness ==
    /\ Returned("t1", "install_backend")
    /\ bundled_installer \in calls["t1"].fs0
    /\ local_installer \in calls["t1"].fs0
    /\ Len(calls["t1"].ext) = 1
    /\ calls["t1"].ext[1].program = bundled_installer
    /\ calls["t1"].ext[1].started

\* C4: with the marker absent and no installer artifact anywhere, install() fails
\* with the installer-not-found error, and autoSetup() fails with that same error
\* and never attempts the script-delegated start.
C4_NoInstallerAnywhere ==
    \A t \in Tasks :
        LET c == calls[t]
        IN (/\ Done(t)
            /\ startup_script \notin c.fs0
            /\ bundled_installer \notin c.fs0
            /\ local_installer \notin c.fs0) =>
               /\ c.op = "install_backend" => c.result = Err(<<MsgInstallerNotFound>>)
               /\ c.op = "auto_setup_on_first_run" =>
                    /\ c.result = Err(<<MsgAutoInstallFailed, MsgInstallerNotFound>>)
                    /\ \A i \in 1..Len(c.trace) : c.trace[i] # "start_backend"


\* C5: from a fresh environment with the bundled installer present, when the
\* installer exits with status 0, install() returns success with a summary that
\* ends in the captured stdout (decoded as text), the marker exists, and from then
\* on the marker stays and checkInstalled() reports it.
C5_FreshInstall ==
    /\ [](\A t \in Tasks :
            LET c == calls[t]
            IN (/\ Returned(t, "install_backend")
                /\ Fresh(c.fs0)
                /\ bundled_installer \in c.fs0
                /\ c.output.code = 0) =>
                   /\ c.result = Ok(<<MsgInstallOk>> \o lossy(c.output.stdout))
                   /\ c.ext[1].program = bundled_installer
                   /\ startup_script \in fs)
    /\ [][(startup_script \in fs) => (startup_script \in fs')]_vars
    /\ [](\A t \in Tasks :
            Returned(t, "check_backend_installed") =>
                calls[t].result = OkBool(startup_script \in fs))

C5_Witness ==
    /\ Returned("t1", "install_backend")
    /\ Fresh(calls["t1"].fs0)
    /\ bundled_installer \in calls["t1"].fs0
    /\ calls["t1"].output = [code |-> 0, stdout |-> <<"text">>, stderr |-> <<>>]
    /\ calls["t1"].result = Ok(<<MsgInstallOk, "text">>)
    /\ startup_script \in fs

\* C6: startWithLogs fails with the runtime-missing error whenever the private
\* interpreter is absent, entry script present or not; fails with the
\* entry-missing error when the interpreter exists and the entry script does
\* not; tries to spawn the worker only when both exist; and a failure leaves no
\* worker and no reader thread.
C6_PreconditionOrder ==
    \A t \in Tasks :
        Returned(t, "start_backend_with_logs") =>
            LET c == calls[t]
            IN /\ python_exe \notin c.fs0 =>
                    /\ c.result = Err(<<MsgRuntimeMissing>>)
                    /\ c.ext = <<>>
                    /\ \A s \in Streams : reader[s] = "none"
               /\ (python_exe \in c.fs0 /\ app_py \notin c.fs0) =>
                    /\ c.result = Err(<<MsgEntryMissing>>)
                    /\ c.ext = <<>>
                    /\ \A s \in Streams : reader[s] = "none"
               /\ (python_exe \in c.fs0 /\ app_py \in c.fs0) =>
                    /\ Len(c.ext) = 1
                    /\ c.ext[1].kind = "worker"
                    /\ c.result.ok <=> c.ext[1].started
                    /\ c.result.ok => \A s \in Streams : reader[s] = "running"

C6_Witness ==
    /\ Returned("t1", "start_backend_with_logs")
    /\ python_exe \notin calls["t1"].fs0
    /\ app_py \in calls["t1"].fs0
    /\ calls["t1"].result = Err(<<MsgRuntimeMissing>>)


Lines(as) == [i \in 1..Len(as) |-> as[i].line]

\* The lines of the events the subscriber received under one prefix, in order.
TaggedLines(prefix) ==
    LET ms == SelectSeq(events, LAMBDA m : m[1] = prefix)
    IN [i \in 1..Len(ms) |-> ms[i][2]]

Prefix(s) == IF s = "stdout" THEN "[STDOUT] " ELSE "[STDERR] "

IsPrefix(a, b) == Len(a) <= Len(b) /\ a = SubSeq(b, 1, Len(a))

\* C7 as stated: under any interleaving of the two readers, the events tagged
\* [STDOUT] are exactly the worker's stdout lines in emission order, and likewise
\* [STDERR]: a prefix of them while the reader runs, all of them once it has ended.
C7_ExactlyTheLines ==
    \A s \in Streams :
        /\ IsPrefix(TaggedLines(Prefix(s)), written[s])
        /\ reader[s] = "stopped" => TaggedLines(Prefix(s)) = written[s]

\* C7 amended: each reader takes the lines of its stream once each and in emission
\* order, and the events under its tag are, in that order and once each, the lines
\* that decoded and whose emit succeeded; no event carries another tag.
C7_OrderPerStream ==
    /\ \A s \in Streams :
         /\ Lines(attempts[s]) = SubSeq(written[s], 1, Len(attempts[s]))
         /\ Len(attempts[s]) + Len(pipe[s]) = Len(written[s])
         /\ TaggedLines(Prefix(s)) =
                Lines(SelectSeq(attempts[s], LAMBDA a : a.decoded /\ a.delivered))
    /\ \A i \in 1..Len(events) : events[i][1] \in {"[STDOUT] ", "[STDERR] "}

C7_Witness ==
    events = << <<"[STDOUT] ", "line 1">>, <<"[STDERR] ", "line 1">>,
                <<"[STDOUT] ", "line 2">> >>

\* C8: checkRunning() never returns an error; it makes exactly one GET of
\* http://localhost:8000/ and returns true exactly when a response with a status
\* in 200..299 came back, false on a connection failure, a timeout or any other
\* status.
C8_HealthProbe ==
    \A t \in Tasks :
        Returned(t, "check_backend_running") =>
            LET c == calls[t]
            IN /\ c.result.ok
               /\ Len(c.ext) = 1
               /\ c.ext[1].kind = "http"
               /\ c.ext[1].args = << <<"http://localhost:8000/">> >>
               /\ c.result.val <=>
                    (c.response.kind = "response" /\ c.response.status >= 200
                                                  /\ c.response.status <= 299)

C8_Witness ==
    /\ Returned("t1", "check_backend_running")
    /\ calls["t1"].response.kind = "connect"
    /\ calls["t1"].result = OkBool(FALSE)

\* The environment a call gave the worker it tried to start.
WorkerEnv(c, name) == { p[2] : p \in { q \in c.ext[1].env : q[1] = name } }

\* C9: in both direct-start variants, when the inherited PYTHONPATH has value X the
\* worker is given <backend-dir>;X with X unchanged, and VISUAL_PII_INSTALL_DIR is
\* the install root.
C9_EnvironmentComposition ==
    \A t \in Tasks :
        LET c == calls[t]
        IN (/\ Done(t)
            /\ c.op \in {"start_backend_with_logs", "start_backend_direct"}
            /\ c.ext # <<>>
            /\ pythonpath.present) =>
               /\ WorkerEnv(c, "PYTHONPATH") =
                    { to_str(backend_dir) \o <<";">> \o pythonpath.value }
               /\ WorkerEnv(c, "VISUAL_PII_INSTALL_DIR") = { install_path }

\* C10: when the marker exists as autoSetup() probes it, autoSetup() returns
\* success having run no installer and spawned no worker or shell: it enters
\* neither install_backend nor start_backend.
C10_InstalledPath ==
    \A t \in Tasks :
        LET c == calls[t]
        IN (Returned(t, "auto_setup_on_first_run") /\ startup_script \in c.fs0) =>
               /\ c.result = Ok(<<MsgReady>>)
               /\ c.ext = <<>>
               /\ c.trace = <<"auto_setup_on_first_run", "check_backend_installed">>
               /\ fs = c.fs0

C10_Witness ==
    /\ Returned("t1", "auto_setup_on_first_run")
    /\ startup_script \in calls["t1"].fs0
    /\ bundled_installer \in calls["t1"].fs0
    /\ calls["t1"].result.ok


AutoSetup == "auto_setup_on_first_run"

\* C11: in every autoSetup() run the script-delegated start is entered only after
\* install() returned success in that run; a failed install() ends the run Failed
\* with no start attempt; the run ends Started only when the start succeeded and
\* Failed, saying the installation completed, when it did not; a run in progress
\* always has a next step, and a finished one is exactly one of Installed,
\* Started, Failed.
C11_PhaseOrder ==
    \A t \in Tasks :
        LET c == calls[t]
            probed == <<AutoSetup, "check_backend_installed">>
            installed == Append(probed, "install_backend")
            started == Append(installed, "start_backend")
        IN c.op = AutoSetup =>
            /\ At(t, "start_backend", "entry") => (c.ret.ok /\ c.trace = started)
            /\ ~Done(t) => ENABLED Step(t)
            /\ Done(t) =>
                 \/ /\ c.result = Ok(<<MsgReady>>)
                    /\ c.trace = probed
                 \/ /\ c.result = Ok(<<MsgAutoStarted>>)
                    /\ c.trace = started
                    /\ c.ret = Ok(<<MsgScriptStarted>>)
                    /\ c.ext[Len(c.ext)].kind = "shell" /\ c.ext[Len(c.ext)].started
                 \/ /\ c.result = Err(<<MsgAutoInstallFailed>> \o c.ret.text)
                    /\ ~c.ret.ok
                    /\ c.trace = installed
                    /\ OfKind(c, "shell") = <<>>
                 \/ /\ c.result = Err(<<MsgAutoStartFailed>> \o c.ret.text)
                    /\ ~c.ret.ok
                    /\ c.trace = started

C11_Witness ==
    /\ Returned("t1", AutoSetup)
    /\ calls["t1"].result = Ok(<<MsgAutoStarted>>)
    /\ Len(calls["t1"].ext) = 2
    /\ calls["t1"].ext[1].kind = "installer"
    /\ calls["t1"].output.code = 0


\* C12: once an autoSetup() run has ended Started, every later autoSetup() returns
\* success, runs no installer and spawns no further process.
C12_RepeatedAutoSetup ==
    \A t \in Tasks :
        (Returned(t, AutoSetup) /\ calls[t].started_once) =>
            /\ calls[t].result.ok
            /\ calls[t].ext = <<>>
            /\ fs = calls[t].fs0

C12_Witness ==
    /\ Returned("t1", AutoSetup)
    /\ calls["t1"].started_once
    /\ calls["t1"].result = Ok(<<MsgReady>>)


\* C13: startScriptDelegated() fails with the not-installed error and spawns
\* nothing whenever the marker is absent; whenever the marker exists, whatever
\* else does, it makes exactly one spawn, of a shell running the script, with no
\* stream captured, touches no reader thread and returns without waiting for the
\* child.
C13_ScriptDelegatedStart ==
    /\ [](\A t \in Tasks :
            Returned(t, "start_backend") =>
                LET c == calls[t]
                IN /\ startup_script \notin c.fs0 =>
                        (c.result = Err(<<MsgNotInstalled>>) /\ c.ext = <<>>)
                   /\ startup_script \in c.fs0 =>
                        /\ Len(c.ext) = 1
                        /\ c.ext[1].kind = "shell"
                        /\ c.ext[1].program = <<"cmd">>
                        /\ c.ext[1].args = << <<"/C">>, to_str(startup_script) >>
                        /\ ~c.ext[1].piped
                        /\ c.result.ok <=> c.ext[1].started
                        /\ c.result.ok => c.result = Ok(<<MsgScriptStarted>>)
                   /\ c.output = NoOutput
                   /\ fs = c.fs0)
    /\ [][\A t \in Tasks : start_backend(t) => UNCHANGED relayVars]_vars

C13_Witness ==
    /\ Returned("t1", "start_backend")
    /\ startup_script \in calls["t1"].fs0
    /\ python_exe \notin calls["t1"].fs0
    /\ app_py \notin calls["t1"].fs0
    /\ calls["t1"].result = Ok(<<MsgScriptStarted>>)
    /\ \A s \in Streams : reader[s] = "none"


\* The call of task t gets past the existence check.
PassesCheck(t) ==
    /\ install_backend_check(t)
    /\ calls'[t].stack = <<Frame("install_backend", "locate")>>

\* A call of install_backend has its installer running.
Installing(t) == At(t, "install_backend", "wait")

\* C14: install() takes no lock.  A call at its existence check gets past it
\* whenever the install directory does not exist yet, also while another call has
\* located or is running the installer, so two concurrent calls can both run it.
C14_NoMutualExclusion ==
    \A t \in Tasks :
        (At(t, "install_backend", "entry") /\ ~exists(install_path)) =>
            ENABLED PassesCheck(t)

\* Both calls have passed the check and both installers are running at once.
C14_Witness ==
    /\ Installing("t1") /\ Installing("t2")
    /\ \A t \in Tasks :
         /\ Fresh(calls[t].fs0)
         /\ Len(calls[t].ext) = 1
         /\ calls[t].ext[1].kind = "installer"
         /\ calls[t].ext[1].started


\* The reader of stream s has taken the k-th line and tried to forward it.
Forwarded(s, k) == Len(attempts[s]) >= k /\ attempts[s][k].decoded

\* The reader of stream s has taken the k-th line.
Taken(s, k) == Len(attempts[s]) >= k

\* What holds of the relay at every step, whatever the lines are: a reader ends
\* only at the end of its input, a failed forward included, and no step of a
\* reader closes the worker's streams.
RelaySteps ==
    /\ [][\A s \in Streams :
            (reader[s] = "running" /\ reader'[s] # "running") =>
                (reader'[s] = "stopped" /\ closed[s] /\ pipe[s] = <<>>)]_vars
    /\ [][\A s \in Streams : (ReaderLine(s) \/ ReaderEnd(s)) => UNCHANGED closed]_vars

\* C15 as stated: every line the worker wrote to a stream before its end of input
\* has been read and a forward of it attempted by the time the reader ends.
C15_EveryLineForwarded ==
    \A s \in Streams :
        reader[s] = "stopped" =>
            \A k \in 1..Len(written[s]) : Forwarded(s, k)

\* C15 amended: a failed forward does not stop the reader; every line written
\* before the end of input is eventually read, and a forward is attempted for it
\* exactly when it decodes as text; the reader ends only at the end of its
\* input, and the relay never closes or ends the worker.
C15_BestEffortRelay ==
    /\ RelaySteps
    /\ \A s \in Streams : \A k \in 1..MaxLines :
         (Len(written[s]) >= k) ~> Taken(s, k)
    /\ [](\A s \in Streams : \A k \in 1..Len(attempts[s]) :
            /\ attempts[s][k].line = written[s][k]
            /\ attempts[s][k].decoded <=> (written[s][k] \notin IllFormed))
    /\ \A s \in Streams : (closed[s] /\ reader[s] = "running") ~> (reader[s] = "stopped")

C15_Witness ==
    /\ Len(attempts["stdout"]) = 2
    /\ attempts["stdout"][1] = [line |-> "line 1", decoded |-> TRUE, delivered |-> FALSE]
    /\ attempts["stdout"][2] = [line |-> "line 2", decoded |-> TRUE, delivered |-> TRUE]
    /\ reader["stdout"] = "stopped"


\* C16: a successful streaming start returns the process identifier straight
\* after the spawn, with no output of the worker collected and whatever the
\* worker does afterwards; the readers it started are left running and each
\* keeps running until its own stream is at its end.
C16_FireAndForget ==
    /\ [](\A t \in Tasks :
            /\ At(t, "start_backend_with_logs", "entry") =>
                   ENABLED start_backend_with_logs(t)
            /\ (Returned(t, "start_backend_with_logs") /\ calls[t].result.ok) =>
                   /\ calls[t].ext[1].started
                   /\ calls[t].result =
                          Ok(<<MsgLogsStarted, ToString(calls[t].ext[1].pid), ")">>)
                   /\ calls[t].output = NoOutput
                   /\ \A s \in Streams : reader[s] \in {"running", "stopped"}
                   /\ \A s \in Streams :
                          reader[s] = "stopped" => (closed[s] /\ pipe[s] = <<>>))
    /\ [][\A s \in Streams :
            (reader[s] = "running" /\ ~(closed[s] /\ pipe[s] = <<>>)) =>
                reader'[s] = "running"]_vars
    /\ [][\A t \in Tasks : start_backend_with_logs(t) =>
            (\A s \in Streams : ~closed[s] => ~closed'[s])]_vars

C16_Witness ==
    /\ Returned("t1", "start_backend_with_logs")
    /\ calls["t1"].result.ok
    /\ \A s \in Streams : reader[s] = "running" /\ ~closed[s]
    /\ written["stdout"] # <<>>
    /\ attempts["stdout"] # <<>>


\* The kind of failure a result of a direct start reports, read off its message.
ErrorKind(r) ==
    IF r = NoResult \/ r.ok THEN "none"
    ELSE IF r.text[1] \in {MsgRuntimeMissing, MsgRuntimeMissingAt} THEN "RuntimeMissing"
    ELSE IF r.text[1] \in {MsgEntryMissing, MsgEntryMissingAt} THEN "EntryMissing"
    ELSE IF r.text[1] \in {MsgSpawnFailed, MsgDirectSpawnFailed} THEN "ProcessSpawnFailed"
    ELSE "other"

\* The worker a direct start launches, whichever variant launches it.
SameLaunch(e, env) ==
    /\ e.kind = "worker"
    /\ e.program = python_exe
    /\ e.args = <<app_py>>
    /\ e.cwd = backend_dir
    /\ e.env = env
    /\ e.piped

\* C17: in every filesystem state and inherited environment the streaming and the
\* non-streaming direct start fail their preconditions with the same kind of
\* error, or both launch the same interpreter on the same entry script in the
\* same directory under the same environment overlay with both streams
\* captured; a call of either that has returned did what the other would have
\* done in its place, and the non-streaming one starts no reader.
C17_DirectStartEquivalence ==
    /\ [](/\ ErrorKind(logs_precheck) = ErrorKind(direct_precheck)
          /\ logs_env = direct_env
          /\ \A t \in Tasks :
               /\ Returned(t, "start_backend_with_logs") =>
                    LET c == calls[t]
                        pre == IF ~(python_exe \in c.fs0)
                               THEN Err(<<MsgRuntimeMissingAt>> \o debug(python_exe))
                               ELSE IF ~(app_py \in c.fs0)
                                    THEN Err(<<MsgEntryMissingAt>> \o debug(app_py))
                                    ELSE NoResult
                    IN IF c.ext = <<>>
                       THEN ErrorKind(c.result) = ErrorKind(pre) /\ pre # NoResult
                       ELSE /\ pre = NoResult
                            /\ Len(c.ext) = 1
                            /\ SameLaunch(c.ext[1], direct_env)
                            /\ c.result.ok <=> c.ext[1].started
                            /\ ~c.result.ok => ErrorKind(c.result) = "ProcessSpawnFailed"
               /\ Returned(t, "start_backend_direct") =>
                    LET c == calls[t]
                        pre == IF ~(python_exe \in c.fs0) THEN Err(<<MsgRuntimeMissing>>)
                               ELSE IF ~(app_py \in c.fs0) THEN Err(<<MsgEntryMissing>>)
                               ELSE NoResult
                    IN IF c.ext = <<>>
                       THEN ErrorKind(c.result) = ErrorKind(pre) /\ pre # NoResult
                       ELSE /\ pre = NoResult
                            /\ Len(c.ext) = 1
                            /\ SameLaunch(c.ext[1], logs_env)
                            /\ c.result.ok <=> c.ext[1].started
                            /\ ~c.result.ok => ErrorKind(c.result) = "ProcessSpawnFailed")
    /\ [][\A t \in Tasks : start_backend_direct(t) => UNCHANGED relayVars]_vars

C17_Witness ==
    /\ Returned("t1", "start_backend_direct")
    /\ calls["t1"].result.ok
    /\ pythonpath.present
    /\ \A s \in Streams : reader[s] = "none"


\* s occurs in text as a run of consecutive units.
Contains(text, s) ==
    \E i \in 0..(Len(text) - Len(s)) : SubSeq(text, i + 1, i + Len(s)) = s

\* C18: a streaming direct start that fails for want of the interpreter returns
\* an error that carries the interpreter's expected path, and one that fails for
\* want of the entry script returns an error that carries the script's.
C18_FailuresNameThePath ==
    \A t \in Tasks :
        (Returned(t, "start_backend_with_logs") /\ ~calls[t].result.ok) =>
            /\ ErrorKind(calls[t].result) = "RuntimeMissing" =>
                   Contains(calls[t].result.text, debug(python_exe))
            /\ ErrorKind(calls[t].result) = "EntryMissing" =>
                   Contains(calls[t].result.text, debug(app_py))


\* The probe of the system interpreter is the first thing call c did, and it ran.
ProbePassed(c) ==
    /\ c.ext # <<>>
    /\ c.ext[1].kind = "probe"
    /\ c.ext[1].started

\* C19: installDirect() probes the system interpreter before anything else; when
\* the probe cannot be run the call ends with the "Python not found" error, the
\* filesystem is as the call found it and no package installer was run; the
\* directory and the manifest are written, and the package installer run, only
\* in a call whose probe ran.
C19_InterpreterFirst ==
    /\ [](\A t \in Tasks :
            calls[t].op = "install_backend_direct" =>
                LET c == calls[t]
                IN /\ c.ext = <<>> => (fs = c.fs0 /\ At(t, "install_backend_direct", "entry"))
                   /\ c.ext # <<>> => c.ext[1].kind = "probe"
                   /\ (c.ext # <<>> /\ ~c.ext[1].started) =>
                          /\ Done(t)
                          /\ c.result = Err(<<MsgPythonNotFound>>)
                          /\ fs = c.fs0
                          /\ Len(c.ext) = 1
                   /\ (fs # c.fs0 \/ OfKind(c, "pip") # <<>>) => ProbePassed(c)
                   /\ OfKind(c, "pip") # <<>> => requirements_path \in fs)
    /\ [][\A t \in Tasks :
            (install_backend_direct_write(t) \/ install_backend_direct_pip(t)) =>
                ProbePassed(calls[t])]_vars

C19_Witness ==
    /\ Returned("t1", "install_backend_direct")
    /\ calls["t1"].ext # <<>>
    /\ ~calls["t1"].ext[1].started
    /\ calls["t1"].result = Err(<<MsgPythonNotFound>>)
    /\ Fresh(fs)


\* The external action that failed in call c, if one did: one that could not be
\* started, a child that exited with a failure status, or a request that got
\* no response.
Failed(c) ==
    \/ \E i \in 1..Len(c.ext) : ~c.ext[i].started
    \/ c.output # NoOutput /\ ~success(c.output.code)
    \/ c.response.kind \in {"connect", "timeout"}

\* In call c each kind of external action was performed at most once, and none
\* after one that failed.
AtMostOnceEach(c) ==
    /\ \A i, j \in 1..Len(c.ext) : c.ext[i].kind = c.ext[j].kind => i = j
    /\ \A i \in 1..Len(c.ext) : ~c.ext[i].started => i = Len(c.ext)
    /\ (c.output # NoOutput /\ ~success(c.output.code)) =>
           c.ext[Len(c.ext)].kind \in {"installer", "pip"}

\* C20 as stated: no external action is performed twice in one invocation, and
\* the first one that fails ends the operation with an error, nothing further
\* being started.
C20_FirstFailureIsAnError ==
    \A t \in Tasks :
        /\ AtMostOnceEach(calls[t])
        /\ (Done(t) /\ Failed(calls[t])) => ~calls[t].result.ok

\* C20 amended: no external action is performed twice in one invocation and none
\* is started after one that failed; the failure ends the operation with an
\* error, except in checkRunning(), where a request that fails ends it with the
\* answer false.
C20_NoRetries ==
    \A t \in Tasks :
        LET c == calls[t]
        IN /\ AtMostOnceEach(c)
           /\ (Done(t) /\ Failed(c)) =>
                  IF c.op = "check_backend_running"
                  THEN c.result = OkBool(FALSE) /\ Len(c.ext) = 1
                  ELSE ~c.result.ok

C20_Witness ==
    /\ Returned("t1", "auto_setup_on_first_run")
    /\ Len(calls["t1"].ext) = 1
    /\ ~calls["t1"].ext[1].started
    /\ calls["t1"].ext[1].kind = "installer"
    /\ ~calls["t1"].result.ok


\* The install directory is there and the marker is not.
HalfInstalled(f) == install_path \in f /\ startup_script \notin f

\* C21: installDirect() never creates the marker, and once its package installer
\* has been run the install directory is there, whatever the outcome.  A
\* filesystem with the install directory and without the marker stays so under
\* every operation; called in such a state, checkInstalled() returns false,
\* install() returns its success without locating or running an installer,
\* startScriptDelegated() fails with "not installed" having spawned nothing, and
\* autoSetup() goes through probe, install and start and ends Failed at the
\* start, never Started.
C21_StuckHalfInstalled ==
    /\ [][\A t \in Tasks :
            (\/ install_backend_direct_probe(t)
             \/ install_backend_direct_write(t)
             \/ install_backend_direct_pip(t)) =>
                (startup_script \in fs' <=> startup_script \in fs)]_vars
    /\ [][HalfInstalled(fs) => HalfInstalled(fs')]_vars
    /\ [](\A t \in Tasks :
            LET c == calls[t]
            IN /\ (Returned(t, "install_backend_direct") /\ OfKind(c, "pip") # <<>>) =>
                      /\ install_path \in fs
                      /\ startup_script \in fs <=> startup_script \in c.fs0
               /\ (Done(t) /\ HalfInstalled(c.fs0)) =>
                      /\ c.op = "check_backend_installed" => c.result = OkBool(FALSE)
                      /\ c.op = "install_backend" =>
                             (c.result = Ok(<<MsgFound>>) /\ c.ext = <<>>)
                      /\ c.op = "start_backend" =>
                             (c.result = Err(<<MsgNotInstalled>>) /\ c.ext = <<>>)
                      /\ c.op = AutoSetup =>
                             /\ c.result = Err(<<MsgAutoStartFailed, MsgNotInstalled>>)
                             /\ c.trace = <<AutoSetup, "check_backend_installed",
                                            "install_backend", "start_backend">>
                             /\ c.ext = <<>>
                             /\ fs = c.fs0)

C21_Witness ==
    /\ Returned("t1", AutoSetup)
    /\ HalfInstalled(calls["t1"].fs0)
    /\ requirements_path \in fs
    /\ python_exe \notin fs
    /\ bundled_installer \in fs
    /\ calls["t1"].result = Err(<<MsgAutoStartFailed, MsgNotInstalled>>)

====
